---- MODULE Spec2Model ----
(***************************************************************************)
(* DescriptorBindHelper of imr (src/imr/src/descriptor_bind_helper.cpp).   *)
(*                                                                         *)
(* The helper sizes one descriptor pool from the reflected layout, lazily  *)
(* allocates one descriptor set per set index on the first attachment to   *)
(* it, records the image views it creates in a cleanup list, and binds the *)
(* allocated sets on commit / commit_frame.                                *)
(*                                                                         *)
(* The Vulkan device is modelled by what it is asked to do: the tables it  *)
(* has allocated (devTables), the views it has created (devViews), the     *)
(* descriptor writes it has received (slots), the bind commands recorded   *)
(* by the last call (issued) and the calls of the destructor (destroyLog). *)
(* assert() is modelled as compiled in: a failed assertion aborts.         *)
(* Failure of host memory allocation (calloc, vector growth) is not        *)
(* modelled.                                                               *)
(***************************************************************************)
EXTENDS Integers, Sequences, FiniteSets, TLC

\* ------------------------------------------------------------------ bounds
MaxSets == 2            \* largest layout.set_layouts.size() explored
MaxCalls == 2           \* API calls on one helper between construction and destruction
MaxPoolSets == 2        \* set indices of the layouts of the pool-size runs
MaxPoolBindings == 3    \* bindings, over all sets, of the layouts of the pool-size runs

\* --------------------------------------------------------------- constants
VK_NULL_HANDLE == 0
\* an indeterminate handle value: what an uninitialised variable or a read
\* outside the sets array may hold, distinct from every handle the device made
Garbage == -1

STORAGE_IMAGE == "VK_DESCRIPTOR_TYPE_STORAGE_IMAGE"
COMBINED_IMAGE_SAMPLER == "VK_DESCRIPTOR_TYPE_COMBINED_IMAGE_SAMPLER"
UNIFORM_BUFFER == "VK_DESCRIPTOR_TYPE_UNIFORM_BUFFER"
DescriptorTypes == {STORAGE_IMAGE, COMBINED_IMAGE_SAMPLER, UNIFORM_BUFFER}

Nullopt == "nullopt"

\* ------------------------------------------------------------------ inputs
\* images the caller may pass: a 2D image and one whose VkImageType is none
\* of 1D/2D/3D
Image2D == [handle |-> 1, type |-> "VK_IMAGE_TYPE_2D", layerCount |-> 1]
ImageOther == [handle |-> 2, type |-> "VK_IMAGE_TYPE_MAX_ENUM", layerCount |-> 1]
Images == {Image2D, ImageOther}
\* the view types tried with an image: none for the 2D image, none or an
\* explicit one for the other
ViewTypeArgs(image) ==
    IF image = Image2D THEN {Nullopt} ELSE {Nullopt, "VK_IMAGE_VIEW_TYPE_2D_ARRAY"}
\* set_combined_image_sampler does not look at the image's type
SampledImages == {Image2D}
SubresourceArgs == {Nullopt}
Samplers == {5}
Buffers == {[handle |-> 9]}
Offsets == {0}
Ranges == {16}
BindingArgs == {0}

VARIABLES
    layoutSets,     \* layout.set_layouts.size()
    reflected,      \* reflected.set_bindings: set index -> list of bindings
    status,         \* "unbuilt", "alive", "aborted", "crashed", "destroyed"
    committed,      \* Impl::committed
    nsets,          \* Impl::nsets
    sets,           \* Impl::sets, the calloc'ed array, indices 0..nsets-1
    beyond,         \* the memory after the array, indices nsets..layoutSets-1
    pool,           \* Impl::pool
    pool_sizes,     \* the pPoolSizes handed to vkCreateDescriptorPool
    cleanup,        \* Impl::cleanup: the view each closure captured
    devTables,      \* descriptor sets vkAllocateDescriptorSets returned
    devViews,       \* image views vkCreateImageView created
    slots,          \* descriptor writes received: <<dstSet, dstBinding>> -> write
    issued,         \* vkCmdBindDescriptorSets commands recorded by the last call
    destroyLog,     \* device calls of ~Impl, in order
    lastCall,       \* the last API call, what the device did in it, how it ended
    calls,          \* number of API calls so far
    ncommits,       \* number of commit calls that returned
    nframes,        \* number of commit_frame calls that returned
    attached        \* set indices an attachment call returned normally for

layoutVars == <<layoutSets, reflected>>
implVars == <<nsets, sets, beyond, pool, pool_sizes, cleanup>>
devVars == <<devTables, devViews, slots>>
histVars == <<ncommits, nframes, attached>>
vars == <<layoutSets, reflected, status, committed, nsets, sets, beyond, pool,
          pool_sizes, cleanup, devTables, devViews, slots, issued, destroyLog,
          lastCall, calls, ncommits, nframes, attached>>

\* ----------------------------------------------------------------- helpers
RECURSIVE SeqsOver(_, _)
SeqsOver(S, n) ==
    IF n = 0 THEN {<<>>}
    ELSE LET shorter == SeqsOver(S, n - 1)
         IN  shorter \cup {Append(q, e) : q \in {t \in shorter : Len(t) = n - 1}, e \in S}

\* every order in which the elements of S can be enumerated
Orders(S) ==
    {q \in SeqsOver(S, Cardinality(S)) :
        /\ Len(q) = Cardinality(S)
        /\ \A i, j \in 1..Len(q) : i # j => q[i] # q[j]}

\* what a call records besides its name, set index and result: the image
\* type and view type it was given, whether vkCreateImageView and
\* vkAllocateDescriptorSets failed in it, and the index it used on sets[]
NoInfo ==
    [imageType |-> Nullopt, viewType |-> Nullopt, viewFailed |-> FALSE,
     allocFailed |-> FALSE, accessed |-> -1]

NoCall ==
    [op |-> "none", set |-> -1, result |-> "none", dstSet |-> VK_NULL_HANDLE] @@ NoInfo

\* ------------------------------------------------------------ construction
\* lines 23-27: the entry of key, created with 0 when absent
access_map_reset(descriptor_counts, key) ==
    [k \in DOMAIN descriptor_counts \cup {key} |->
        IF k = key THEN 0 ELSE descriptor_counts[k]]

access_map(descriptor_counts, key) ==
    IF key \in DOMAIN descriptor_counts
    THEN descriptor_counts
    ELSE [k \in DOMAIN descriptor_counts \cup {key} |->
            IF k = key THEN 0 ELSE descriptor_counts[k]]

\* line 30.  The counts are uint32_t; a sum of descriptor counts stays far
\* below 2^32 (a device's descriptor limits bound it), so no wrap is modelled.
AddBinding(descriptor_counts, binding) ==
    LET m == access_map(descriptor_counts, binding.descriptorType)
    IN  [m EXCEPT ![binding.descriptorType] = @ + binding.descriptorCount]

\* lines 29-31: the inner loop over one set's bindings
RECURSIVE CountBindings(_, _)
CountBindings(descriptor_counts, bindings) ==
    IF bindings = <<>> THEN descriptor_counts
    ELSE CountBindings(AddBinding(descriptor_counts, Head(bindings)), Tail(bindings))

\* lines 28-32: the outer loop, visiting the sets in the given order
RECURSIVE CountSets(_, _)
CountSets(descriptor_counts, order) ==
    IF order = <<>> THEN descriptor_counts
    ELSE CountSets(CountBindings(descriptor_counts, reflected[Head(order)]), Tail(order))

\* lines 34-41: one VkDescriptorPoolSize per entry, in the map's iteration order
PoolSizes(descriptor_counts, typeOrder) ==
    [i \in 1..Len(typeOrder) |->
        [type |-> typeOrder[i], descriptorCount |-> descriptor_counts[typeOrder[i]]]]

EmptyMap == [k \in {} |-> 0]

\* Impl::Impl, lines 18-52
Construct ==
    /\ status = "unbuilt"
    /\ \E order \in Orders(DOMAIN reflected) :
         LET descriptor_counts == CountSets(EmptyMap, order)
         IN  \E typeOrder \in Orders(DOMAIN descriptor_counts) :
                pool_sizes' = PoolSizes(descriptor_counts, typeOrder)
    /\ nsets' = Cardinality(DOMAIN reflected)
    /\ sets' = [i \in 0..(nsets' - 1) |-> VK_NULL_HANDLE]
    /\ beyond' = [i \in nsets'..(layoutSets - 1) |-> VK_NULL_HANDLE]
    \* the result of vkCreateDescriptorPool is not looked at: on failure pool
    \* keeps its indeterminate value
    /\ \E failed \in BOOLEAN : pool' = IF failed THEN Garbage ELSE 1
    /\ status' = "alive"
    /\ UNCHANGED <<layoutVars, committed, cleanup, devVars, issued, destroyLog,
                   lastCall, calls, histVars>>

\* --------------------------------------------------------- initial states
Blank ==
    /\ status = "unbuilt"
    /\ committed = FALSE
    /\ nsets = 0
    /\ sets = <<>>
    /\ beyond = <<>>
    /\ pool = VK_NULL_HANDLE
    /\ pool_sizes = <<>>
    /\ cleanup = <<>>
    /\ devTables = {}
    /\ devViews = {}
    /\ slots = <<>>
    /\ issued = <<>>
    /\ destroyLog = <<>>
    /\ lastCall = NoCall
    /\ calls = 0
    /\ ncommits = 0
    /\ nframes = 0
    /\ attached = {}

\* the layout of the specification's scenario, continued to further sets:
\* set 0 has one storage image, every other set one uniform buffer
ScenarioBindings(set) ==
    IF set = 0
    THEN <<[descriptorType |-> STORAGE_IMAGE, descriptorCount |-> 1]>>
    ELSE <<[descriptorType |-> UNIFORM_BUFFER, descriptorCount |-> 1]>>

\* the pipeline layout declares every set index up to the highest one the
\* shader references; the indices below it need not all be referenced
DeclaredCount(used) ==
    IF used = {} THEN 0 ELSE 1 + CHOOSE m \in used : \A s \in used : s <= m

Init ==
    /\ \E used \in SUBSET (0..(MaxSets - 1)) :
          /\ layoutSets = DeclaredCount(used)
          /\ reflected = [s \in used |-> ScenarioBindings(s)]
    /\ Blank

\* the layouts of the pool-size runs: up to MaxPoolBindings bindings, each
\* of any kind and count, spread over the set indices below MaxPoolSets
Counts == {1, 2}
Descriptors == [descriptorType : DescriptorTypes, descriptorCount : Counts]

\* the bindings of flat, from position i on, that belong to set s
RECURSIVE BindingsOf(_, _, _, _)
BindingsOf(flat, owner, s, i) ==
    IF i > Len(flat) THEN <<>>
    ELSE (IF owner[i] = s THEN <<flat[i]>> ELSE <<>>) \o BindingsOf(flat, owner, s, i + 1)

InitPool ==
    /\ \E flat \in SeqsOver(Descriptors, MaxPoolBindings) :
       \E owner \in [1..Len(flat) -> 0..(MaxPoolSets - 1)] :
          LET used == {owner[i] : i \in 1..Len(flat)}
          IN  /\ layoutSets = DeclaredCount(used)
              /\ reflected = [s \in used |-> BindingsOf(flat, owner, s, 1)]
    /\ Blank

\* ------------------------------------------------------- lazy allocation
\* what a read of sets[set] yields (lines 56 and 64).  The array has nsets
\* elements; an index from nsets on reads the memory after it, which holds
\* what was last stored there or anything else.
ReadSets(set) ==
    IF set < nsets THEN {sets[set]}
    ELSE {beyond[set], VK_NULL_HANDLE, Garbage}

\* Impl::get_or_create_set, lines 55-65: every way the call can end, with
\* the array, the memory after it and the device's tables as it leaves them
\* a device call whose failure nothing looks at
CHECK_VK_ignored(failed) == "ok"

\* CHECK_VK_THROW around vkAllocateDescriptorSets, lines 57-62: a failure of
\* the device call is thrown
CHECK_VK_THROW(failed) == IF failed THEN "throw" ELSE "ok"

GetOrCreateOutcomes(set) ==
    LET fresh == Cardinality(devTables) + 1
        kept(res, h) ==
            [result |-> res, handle |-> h, allocFailed |-> FALSE,
             sets |-> sets, beyond |-> beyond, devTables |-> devTables]
        \* a failed vkAllocateDescriptorSets stores VK_NULL_HANDLE in sets[set]
        refused ==
            [result |-> CHECK_VK_THROW(TRUE), handle |-> VK_NULL_HANDLE,
             allocFailed |-> TRUE,
             sets |-> sets,
             beyond |-> IF set < nsets THEN beyond
                        ELSE [beyond EXCEPT ![set] = VK_NULL_HANDLE],
             devTables |-> devTables]
        allocated ==
            [result |-> CHECK_VK_THROW(FALSE), handle |-> fresh, allocFailed |-> FALSE,
             sets |-> IF set < nsets THEN [sets EXCEPT ![set] = fresh] ELSE sets,
             beyond |-> IF set < nsets THEN beyond ELSE [beyond EXCEPT ![set] = fresh],
             devTables |-> devTables \cup {[handle |-> fresh, set |-> set]}]
        \* vkAllocateDescriptorSets: the device may refuse (CHECK_VK_THROW
        \* throws); with an indeterminate pool handle the call is undefined
        allocate ==
            {allocated, refused}
                \cup (IF pool = Garbage THEN {kept("crash", VK_NULL_HANDLE)} ELSE {})
    IN  UNION {IF v # VK_NULL_HANDLE THEN {kept("ok", v)} ELSE allocate : v \in ReadSets(set)}
            \cup (IF set < nsets THEN {} ELSE {kept("crash", VK_NULL_HANDLE)})

\* ------------------------------------------------------------ device calls
TableHandles == {t.handle : t \in devTables}
ViewHandles == {v.handle : v \in devViews}

\* vkCreateImageView, lines 110-116 and 166: the value of `view` after the
\* call and the device's views.  The result is not looked at: on failure
\* `view` keeps its indeterminate value.
CreateViewOutcomes(image, viewType, subresourceRange) ==
    LET fresh == Cardinality(devViews) + 1
    IN  {[view |-> fresh, failed |-> FALSE,
          devViews |-> devViews \cup {[handle |-> fresh, image |-> image.handle,
                                       viewType |-> viewType,
                                       subresourceRange |-> subresourceRange]}]}
        \cup {[view |-> v, failed |-> TRUE, devViews |-> devViews] :
                v \in {VK_NULL_HANDLE, Garbage} \cup ViewHandles}

\* vkUpdateDescriptorSets, lines 118, 187, 196: a write through a handle that
\* is no descriptor set, or of a view that is no view, is undefined
UpdateOutcomes(dstSet, write) ==
    LET viewOk == write.descriptorType = UNIFORM_BUFFER \/ write.imageView \in ViewHandles
    IN  IF dstSet \in TableHandles
        THEN {"written"} \cup (IF viewOk THEN {} ELSE {"crash"})
        ELSE {"lost", "crash"}

Put(f, key, value) ==
    [k \in DOMAIN f \cup {key} |-> IF k = key THEN value ELSE f[k]]

\* how a call ends: it returns, throws, fails an assertion (abort) or crashes;
\* dstSet is what get_or_create_set returned to it, if it got that far
End(op, set, result, dstSet, info) ==
    /\ lastCall' = [op |-> op, set |-> set, result |-> result, dstSet |-> dstSet] @@ info
    /\ calls' = calls + 1
    /\ status' = CASE result = "assert" -> "aborted"
                   [] result = "crash" -> "crashed"
                   [] OTHER -> status

\* a call that ends before it has done anything
Rejected(op, set, result, info) ==
    /\ End(op, set, result, VK_NULL_HANDLE, info)
    /\ UNCHANGED <<layoutVars, committed, implVars, devVars, ncommits, nframes, attached>>
    /\ issued' = <<>>
    /\ destroyLog' = destroyLog

\* the part the three entry points share: get_or_create_set, the descriptor
\* write and, for a call that made a view, the registration of its release
\* (lines 118-134, 174-192, 196-207)
WriteAndRegister(op, set, binding, write, registers, info) ==
    \E o \in GetOrCreateOutcomes(set) :
      LET reached == [info EXCEPT !.allocFailed = o.allocFailed, !.accessed = set]
      IN
        /\ sets' = o.sets
        /\ beyond' = o.beyond
        /\ devTables' = o.devTables
        /\ IF o.result = "ok"
           THEN \E u \in UpdateOutcomes(o.handle, write) :
                   /\ slots' = IF u = "written"
                               THEN Put(slots, <<o.handle, binding>>, write)
                               ELSE slots
                   /\ cleanup' = IF u # "crash" /\ registers
                                 THEN Append(cleanup, write.imageView)
                                 ELSE cleanup
                   /\ attached' = IF u # "crash" THEN attached \cup {set} ELSE attached
                   /\ End(op, set, IF u = "crash" THEN "crash" ELSE "ok", o.handle, reached)
           ELSE /\ slots' = slots
                /\ cleanup' = cleanup
                /\ attached' = attached
                /\ End(op, set, o.result, VK_NULL_HANDLE, reached)
        /\ issued' = <<>>
        /\ UNCHANGED <<layoutVars, committed, nsets, pool, pool_sizes, destroyLog,
                       ncommits, nframes>>

\* ------------------------------------------------------------- attachment
\* image_type_to_view_type as it would be with a default view type
image_type_to_view_type_defaulting(type) ==
    CASE type = "VK_IMAGE_TYPE_1D" -> "VK_IMAGE_VIEW_TYPE_1D"
      [] type = "VK_IMAGE_TYPE_3D" -> "VK_IMAGE_VIEW_TYPE_3D"
      [] OTHER -> "VK_IMAGE_VIEW_TYPE_2D"

\* image_type_to_view_type, lines 93-100
image_type_to_view_type(type) ==
    CASE type = "VK_IMAGE_TYPE_1D" -> "VK_IMAGE_VIEW_TYPE_1D"
      [] type = "VK_IMAGE_TYPE_2D" -> "VK_IMAGE_VIEW_TYPE_2D"
      [] type = "VK_IMAGE_TYPE_3D" -> "VK_IMAGE_VIEW_TYPE_3D"
      [] OTHER -> "throw"

whole_image_subresource_range(image) ==
    [baseMipLevel |-> 0, levelCount |-> 1, baseArrayLayer |-> 0,
     layerCount |-> image.layerCount]

\* DescriptorBindHelper::set_storage_image, lines 102-135
set_storage_image(set, binding, image, subresource, image_view_type) ==
    LET given == [NoInfo EXCEPT !.imageType = image.type, !.viewType = image_view_type]
    IN
    /\ status = "alive"
    /\ calls < MaxCalls
    /\ IF committed
       THEN Rejected("set_storage_image", set, "assert", given)
       ELSE LET final_image_view_type ==
                    IF image_view_type # Nullopt THEN image_view_type
                    ELSE image_type_to_view_type(image.type)
                subresource_range ==
                    IF subresource # Nullopt THEN subresource
                    ELSE whole_image_subresource_range(image)
            IN  IF final_image_view_type = "throw"
                THEN Rejected("set_storage_image", set, "throw", given)
                ELSE \E c \in CreateViewOutcomes(image, final_image_view_type, subresource_range) :
                        /\ devViews' = c.devViews
                        /\ WriteAndRegister("set_storage_image", set, binding,
                              [descriptorType |-> STORAGE_IMAGE,
                               sampler |-> VK_NULL_HANDLE,
                               imageView |-> c.view,
                               imageLayout |-> "VK_IMAGE_LAYOUT_GENERAL"],
                              TRUE, [given EXCEPT !.viewFailed = c.failed])

\* DescriptorBindHelper::set_combined_image_sampler, lines 137-193
set_combined_image_sampler(set, binding, image, sampler) ==
    LET given == [NoInfo EXCEPT !.imageType = image.type]
    IN
    /\ status = "alive"
    /\ calls < MaxCalls
    /\ IF committed
       THEN Rejected("set_combined_image_sampler", set, "assert", given)
       ELSE LET subresourceRange ==
                    [baseMipLevel |-> 0, levelCount |-> 1, baseArrayLayer |-> 0,
                     layerCount |-> image.layerCount]
            IN  \E c \in CreateViewOutcomes(image, "VK_IMAGE_VIEW_TYPE_2D_ARRAY", subresourceRange) :
                    /\ devViews' = c.devViews
                    /\ WriteAndRegister("set_combined_image_sampler", set, binding,
                          [descriptorType |-> COMBINED_IMAGE_SAMPLER,
                           sampler |-> sampler,
                           imageView |-> c.view,
                           imageLayout |-> "VK_IMAGE_LAYOUT_SHADER_READ_ONLY_OPTIMAL"],
                          TRUE, [given EXCEPT !.viewFailed = c.failed])

\* DescriptorBindHelper::set_uniform_buffer, lines 195-208: no assertion on
\* committed, no view
set_uniform_buffer(set, binding, buffer, offset, range) ==
    /\ status = "alive"
    /\ calls < MaxCalls
    /\ devViews' = devViews
    /\ WriteAndRegister("set_uniform_buffer", set, binding,
          [descriptorType |-> UNIFORM_BUFFER,
           buffer |-> buffer.handle,
           offset |-> offset,
           range |-> range],
          FALSE, NoInfo)

\* ----------------------------------------------------------------- publish
\* the loop of commit, lines 212-215, from index set on
RECURSIVE PublishLoop(_)
PublishLoop(set) ==
    IF set >= nsets THEN <<>>
    ELSE (IF sets[set] # VK_NULL_HANDLE
          THEN <<[firstSet |-> set, descriptorSet |-> sets[set]]>>
          ELSE <<>>) \o PublishLoop(set + 1)

\* the loop of commit_frame as it would be without the test of line 221
RECURSIVE FrameLoop_unguarded(_)
FrameLoop_unguarded(set) ==
    IF set >= nsets THEN <<>>
    ELSE <<[firstSet |-> set, descriptorSet |-> sets[set]]>> \o FrameLoop_unguarded(set + 1)

\* the loop of commit_frame, lines 220-223, from index set on
RECURSIVE FrameLoop(_)
FrameLoop(set) ==
    IF set >= nsets THEN <<>>
    ELSE (IF sets[set] # VK_NULL_HANDLE
          THEN <<[firstSet |-> set, descriptorSet |-> sets[set]]>>
          ELSE <<>>) \o FrameLoop(set + 1)

\* commit as it would be if it released the views it no longer needs
commit_releasing ==
    /\ status = "alive"
    /\ calls < MaxCalls
    /\ IF committed
       THEN Rejected("commit", -1, "assert", NoInfo)
       ELSE /\ issued' = PublishLoop(0)
            /\ committed' = TRUE
            /\ ncommits' = ncommits + 1
            /\ cleanup' = <<>>
            /\ End("commit", -1, "ok", VK_NULL_HANDLE, NoInfo)
            /\ UNCHANGED <<layoutVars, nsets, sets, beyond, pool, pool_sizes, devVars,
                           destroyLog, nframes, attached>>

\* commit as it would be without line 216
commit_keeps_open ==
    /\ status = "alive"
    /\ calls < MaxCalls
    /\ IF committed
       THEN Rejected("commit", -1, "assert", NoInfo)
       ELSE /\ issued' = PublishLoop(0)
            /\ committed' = committed
            /\ ncommits' = ncommits + 1
            /\ End("commit", -1, "ok", VK_NULL_HANDLE, NoInfo)
            /\ UNCHANGED <<layoutVars, implVars, devVars, destroyLog, nframes, attached>>

\* DescriptorBindHelper::commit, lines 210-217
commit ==
    /\ status = "alive"
    /\ calls < MaxCalls
    /\ IF committed
       THEN Rejected("commit", -1, "assert", NoInfo)
       ELSE /\ issued' = PublishLoop(0)
            /\ committed' = TRUE
            /\ ncommits' = ncommits + 1
            /\ End("commit", -1, "ok", VK_NULL_HANDLE, NoInfo)
            /\ UNCHANGED <<layoutVars, implVars, devVars, destroyLog, nframes, attached>>

\* commit_frame as it would be with the assertion of commit in front
commit_frame_asserting ==
    /\ status = "alive"
    /\ calls < MaxCalls
    /\ IF committed
       THEN Rejected("commit_frame", -1, "assert", NoInfo)
       ELSE /\ issued' = FrameLoop(0)
            /\ nframes' = nframes + 1
            /\ End("commit_frame", -1, "ok", VK_NULL_HANDLE, NoInfo)
            /\ UNCHANGED <<layoutVars, committed, implVars, devVars, destroyLog,
                           ncommits, attached>>

\* commit_frame as it would be if it closed the helper as commit does
commit_frame_committing ==
    /\ status = "alive"
    /\ calls < MaxCalls
    /\ issued' = FrameLoop(0)
    /\ nframes' = nframes + 1
    /\ committed' = TRUE
    /\ End("commit_frame", -1, "ok", VK_NULL_HANDLE, NoInfo)
    /\ UNCHANGED <<layoutVars, implVars, devVars, destroyLog, ncommits, attached>>

\* DescriptorBindHelper::commit_frame, lines 219-224
commit_frame ==
    /\ status = "alive"
    /\ calls < MaxCalls
    /\ issued' = FrameLoop(0)
    /\ nframes' = nframes + 1
    /\ End("commit_frame", -1, "ok", VK_NULL_HANDLE, NoInfo)
    /\ UNCHANGED <<layoutVars, committed, implVars, devVars, destroyLog, ncommits,
                   attached>>

\* ------------------------------------------------------------- destruction
\* the destructor as it would be with the cleanup list walked backwards
DestructorCalls_backwards ==
    <<[call |-> "free", arg |-> VK_NULL_HANDLE],
      [call |-> "vkDestroyDescriptorPool", arg |-> pool]>>
    \o [i \in 1..Len(cleanup) |->
          [call |-> "vkDestroyImageView", arg |-> cleanup[Len(cleanup) + 1 - i]]]

\* the destructor as it would be with the cleanup loop before the pool
DestructorCalls_viewsFirst ==
    <<[call |-> "free", arg |-> VK_NULL_HANDLE]>>
    \o [i \in 1..Len(cleanup) |-> [call |-> "vkDestroyImageView", arg |-> cleanup[i]]]
    \o <<[call |-> "vkDestroyDescriptorPool", arg |-> pool]>>

\* the device calls of ~Impl, lines 67-74, in the order the code makes them
DestructorCalls ==
    <<[call |-> "free", arg |-> VK_NULL_HANDLE],
      [call |-> "vkDestroyDescriptorPool", arg |-> pool]>>
    \o [i \in 1..Len(cleanup) |-> [call |-> "vkDestroyImageView", arg |-> cleanup[i]]]

\* the calls of the destructor whose behaviour is undefined: free of an
\* array that was written past its end, destruction of an indeterminate
\* pool, destruction of a handle that is no view or was destroyed already
UndefinedAt(all, i) ==
    CASE all[i].call = "free" -> \E s \in DOMAIN beyond : beyond[s] # VK_NULL_HANDLE
      [] all[i].call = "vkDestroyDescriptorPool" -> all[i].arg = Garbage
      [] OTHER -> /\ all[i].arg # VK_NULL_HANDLE
                  /\ \/ all[i].arg \notin ViewHandles
                     \/ \E j \in 1..(i - 1) :
                           all[j].call = "vkDestroyImageView" /\ all[j].arg = all[i].arg

\* DescriptorBindHelper::~DescriptorBindHelper, line 81, which destroys
\* _impl: ~Impl, lines 67-74
Destroy ==
    /\ status = "alive"
    /\ LET all == DestructorCalls
       IN  \/ /\ destroyLog' = all
              /\ status' = "destroyed"
           \/ \E i \in 1..Len(all) :
                 /\ UndefinedAt(all, i)
                 /\ destroyLog' = SubSeq(all, 1, i)
                 /\ status' = "crashed"
    /\ lastCall' = [op |-> "destroy", set |-> -1,
                     result |-> IF status' = "crashed" THEN "crash" ELSE "ok",
                     dstSet |-> VK_NULL_HANDLE] @@ NoInfo
    /\ issued' = <<>>
    /\ UNCHANGED <<layoutVars, committed, implVars, devVars, calls, histVars>>

\* ------------------------------------------------------------------- specs
DeclaredSets == 0..(layoutSets - 1)

Attach ==
    \E set \in DeclaredSets, binding \in BindingArgs :
        \/ \E image \in Images, subresource \in SubresourceArgs :
           \E image_view_type \in ViewTypeArgs(image) :
              set_storage_image(set, binding, image, subresource, image_view_type)
        \/ \E image \in SampledImages, sampler \in Samplers :
              set_combined_image_sampler(set, binding, image, sampler)
        \/ \E buffer \in Buffers, offset \in Offsets, range \in Ranges :
              set_uniform_buffer(set, binding, buffer, offset, range)

Next ==
    \/ Construct
    \/ Attach
    \/ commit
    \/ commit_frame
    \/ Destroy

Spec == Init /\ [][Next]_vars

NextPool == Construct

SpecPool == InitPool /\ [][NextPool]_vars

\* ------------------------------------------------------------------ claims
AttachOps == {"set_storage_image", "set_combined_image_sampler", "set_uniform_buffer"}

\* the step is one call of the entry point op
CallOf(op) == calls' = calls + 1 /\ lastCall'.op = op

\* C1: an attachment call on a committed helper is rejected as a protocol
\* violation and mutates nothing: no table allocated, no slot written, no
\* view created, no release action registered.
C1_AttachAfterCommitRejected ==
    [][\A op \in AttachOps :
          (committed /\ CallOf(op)) =>
              /\ lastCall'.result = "assert"
              /\ UNCHANGED <<sets, beyond, devTables, devViews, slots, cleanup>>]_vars

C3_FrameIgnoresCommitted ==
    /\ []((status = "alive" /\ calls < MaxCalls) => ENABLED commit_frame)
    /\ [][CallOf("commit_frame") =>
              /\ lastCall'.result = "ok"
              /\ status' = "alive"
              /\ committed' = committed
              /\ nframes' = nframes + 1]_vars

\* commit_frame was called on an open helper and a commit after it was
\* accepted
C3_CommitAcceptedAfterFrame ==
    /\ nframes >= 1
    /\ ncommits = 1
    /\ lastCall.op = "commit"
    /\ lastCall.result = "ok"

HasTable(s) == \E t \in devTables : t.set = s
BindsAt(binds, s) == Cardinality({i \in 1..Len(binds) : binds[i].firstSet = s})

\* C4: a commit that returns has recorded, for every set index the pipeline
\* layout declares, exactly one bind command if a table was allocated for
\* that index and none otherwise.
C4_CommitBindsEveryTable ==
    (lastCall.op = "commit" /\ lastCall.result = "ok") =>
        \A s \in 0..(layoutSets - 1) :
            BindsAt(issued, s) = IF HasTable(s) THEN 1 ELSE 0

\* C5: at most one table is ever allocated per set index, and an attachment
\* call for an index that has a table writes to that table.
C5_GetOrCreateIdempotent ==
    /\ [](\A s \in 0..(layoutSets - 1) :
            Cardinality({t \in devTables : t.set = s}) <= 1)
    /\ [][\A op \in AttachOps :
            (CallOf(op) /\ lastCall'.result = "ok") =>
                [handle |-> lastCall'.dstSet, set |-> lastCall'.set] \in devTables']_vars

\* C6: in the destructor, every destruction of a view comes after the
\* destruction of the descriptor pool.
C6_PoolReleasedBeforeViews ==
    \A j \in 1..Len(destroyLog) :
        destroyLog[j].call = "vkDestroyImageView" =>
            \E i \in 1..(j - 1) : destroyLog[i].call = "vkDestroyDescriptorPool"

\* a committed helper with a registered view was destroyed
C6_DestroyedWithViews ==
    /\ status = "destroyed"
    /\ committed
    /\ \E j \in 1..Len(destroyLog) : destroyLog[j].call = "vkDestroyImageView"

\* C7: the number of registered release actions equals the number of views
\* the attachment calls created, and each action releases a view of its own.
C7_OneReleasePerView ==
    /\ Len(cleanup) = Cardinality(devViews)
    /\ {cleanup[i] : i \in 1..Len(cleanup)} = ViewHandles

\* C8: when the helper has been destroyed, every view created over its
\* lifetime has been destroyed.
C8_EveryViewReleased ==
    status = "destroyed" =>
        \A v \in ViewHandles :
            \E j \in 1..Len(destroyLog) :
                destroyLog[j].call = "vkDestroyImageView" /\ destroyLog[j].arg = v

\* C9: while the helper runs, a declared set index has an allocated table if
\* and only if an attachment call for that index has completed, and only an
\* index with such a call is bound.
C9_TableIffAttached ==
    status \in {"alive", "destroyed"} =>
        /\ \A s \in 0..(layoutSets - 1) : HasTable(s) <=> s \in attached
        /\ \A i \in 1..Len(issued) : issued[i].firstSet \in attached

\* the places <<set, position>> of the reflected layout that hold a binding
\* of the given kind
BindingsOfKind(kind) ==
    {p \in UNION {{<<s, i>> : i \in 1..Len(reflected[s])} : s \in DOMAIN reflected} :
        reflected[p[1]][p[2]].descriptorType = kind}

RECURSIVE SumCounts(_)
SumCounts(places) ==
    IF places = {} THEN 0
    ELSE LET p == CHOOSE q \in places : TRUE
         IN  reflected[p[1]][p[2]].descriptorCount + SumCounts(places \ {p})

\* C10: after construction, whatever the order the sets and the kinds were
\* visited in, the pool sizes hold for each kind that occurs in the reflected
\* layout exactly one entry, whose count is the sum of descriptorCount over
\* all bindings of that kind in all sets, and no entry for any other kind.
C10_PoolSizesAreHistogram ==
    status = "alive" =>
        \A kind \in DescriptorTypes :
            LET entries == {i \in 1..Len(pool_sizes) : pool_sizes[i].type = kind}
            IN  IF BindingsOfKind(kind) = {}
                THEN entries = {}
                ELSE /\ Cardinality(entries) = 1
                     /\ \A i \in entries :
                           pool_sizes[i].descriptorCount = SumCounts(BindingsOfKind(kind))

\* a pool was sized for a layout in which one kind occurs in two sets and
\* twice in one of them, with different counts
C10_KindAcrossSets ==
    /\ status = "alive"
    /\ \E i \in 1..Len(pool_sizes) : pool_sizes[i].descriptorCount = 5
    /\ \E kind \in DescriptorTypes :
          /\ Cardinality({p[1] : p \in BindingsOfKind(kind)}) >= 2
          /\ Cardinality(BindingsOfKind(kind)) >= 3

KnownImageTypes == {"VK_IMAGE_TYPE_1D", "VK_IMAGE_TYPE_2D", "VK_IMAGE_TYPE_3D"}

\* C11: a set_storage_image call on an open helper that is given no view
\* type and an image whose type has no view type throws, and neither that
\* call nor such a call on a committed helper creates a view, allocates a
\* table, writes a slot, registers a release action or changes committed.
C11_UnknownShapeNoEffect ==
    [][(/\ CallOf("set_storage_image")
        /\ lastCall'.viewType = Nullopt
        /\ lastCall'.imageType \notin KnownImageTypes) =>
            /\ (~committed => lastCall'.result = "throw" /\ status' = "alive")
            /\ lastCall'.accessed = -1
            /\ UNCHANGED <<sets, beyond, devTables, devViews, slots, cleanup,
                           committed>>]_vars

\* an open helper that holds a table and a view has thrown on an image of
\* unknown type
C11_ThrownAfterAttachment ==
    /\ lastCall.op = "set_storage_image"
    /\ lastCall.result = "throw"
    /\ lastCall.viewType = Nullopt
    /\ lastCall.imageType \notin KnownImageTypes
    /\ devViews # {}
    /\ devTables # {}

\* C12: a helper is alive only with a pool that was created, and a call in
\* which the creation of the view failed ends with an error before it
\* reaches get_or_create_set, so the failed handle is neither written nor
\* registered.
C12_FailedHandleNeverUsed ==
    /\ (status = "alive" => pool # Garbage)
    /\ (lastCall.viewFailed => lastCall.result = "throw" /\ lastCall.accessed = -1)

\* the arguments of the vkDestroyImageView calls the destructor has made
ReleasesRun ==
    LET IsRelease(e) == e.call = "vkDestroyImageView"
        ran == SelectSeq(destroyLog, IsRelease)
    IN  [i \in 1..Len(ran) |-> ran[i].arg]

\* C13: no release action runs before the destructor; the release actions
\* the destructor has run are the first registered ones, each once, in the
\* order of registration; a destructor that returned has run all of them.
C13_ReleasesOnceInOrder ==
    /\ (lastCall.op # "destroy" => destroyLog = <<>>)
    /\ Len(ReleasesRun) <= Len(cleanup)
    /\ \A i \in 1..Len(ReleasesRun) : ReleasesRun[i] = cleanup[i]
    /\ (status = "destroyed" => Len(ReleasesRun) = Len(cleanup))

\* a helper with two registered views of its own was destroyed after a
\* publish call
C13_TwoViewsReleased ==
    /\ status = "destroyed"
    /\ Len(cleanup) = 2
    /\ cleanup[1] # cleanup[2]
    /\ ReleasesRun = cleanup

\* the descriptors of one kind that the layout of set s holds
DescriptorsOfSet(kind, s) == SumCounts({p \in BindingsOfKind(kind) : p[1] = s})

RECURSIVE DescriptorsConsumed(_, _)
DescriptorsConsumed(kind, tables) ==
    IF tables = {} THEN 0
    ELSE LET t == CHOOSE u \in tables : TRUE
         IN  DescriptorsOfSet(kind, t.set) + DescriptorsConsumed(kind, tables \ {t})

\* the count the pool was sized with for one kind
PoolCapacity(kind) ==
    LET entries == {i \in 1..Len(pool_sizes) : pool_sizes[i].type = kind}
    IN  IF entries = {} THEN 0
        ELSE pool_sizes[CHOOSE i \in entries : TRUE].descriptorCount

\* C14: the number of allocated tables is at most the number of sets the
\* layout declares (the pool's maxSets), and for each kind the descriptors
\* of the allocated tables are at most the count the pool was sized with.
C14_PoolCapacityRespected ==
    /\ Cardinality(devTables) <= layoutSets
    /\ \A kind \in DescriptorTypes :
          DescriptorsConsumed(kind, devTables) <= PoolCapacity(kind)

\* C15: committed is false until a call is made, changes only in a commit
\* call that returns, and once true is true in every later state.
C15_CommittedTwoState ==
    /\ [](calls = 0 => ~committed)
    /\ [][committed' # committed =>
              /\ ~committed
              /\ CallOf("commit")
              /\ lastCall'.result = "ok"]_vars
    /\ [][committed => committed']_vars

\* a committed helper went through a commit_frame call and is still committed
C15_CommittedAfterFrame ==
    /\ committed
    /\ ncommits = 1
    /\ lastCall.op = "commit_frame"
    /\ status = "alive"

C17_FailedAllocationNoWrite ==
    [][\A op \in AttachOps :
          (CallOf(op) /\ lastCall'.allocFailed) =>
              /\ lastCall'.result = "throw"
              /\ status' = "alive"
              /\ UNCHANGED <<sets, devTables, slots, committed>>]_vars

\* the allocation failed in a call on a helper that holds a table for
\* another set index
C17_FailedBesideTable ==
    /\ lastCall.op \in AttachOps
    /\ lastCall.allocFailed
    /\ lastCall.set < nsets
    /\ \E t \in devTables :
          t.set # lastCall.set /\ t.set < nsets /\ sets[t.set] = t.handle

\* C18: the index an attachment call uses on sets is inside the array, for
\* every set index the layout declares.
C18_SlotInsideArray ==
    lastCall.accessed < nsets

\* C19: a commit or commit_frame call allocates no table, changes no table
\* handle, creates no view, writes no slot and leaves the release actions as
\* they were.
C19_PublishChangesNothing ==
    [][(CallOf("commit") \/ CallOf("commit_frame")) =>
          UNCHANGED <<nsets, sets, beyond, pool, pool_sizes, cleanup, devTables,
                      devViews, slots, attached>>]_vars

\* commit returned on a helper that holds a table and a registered view
C19_CommittedWithViews ==
    /\ lastCall.op = "commit"
    /\ lastCall.result = "ok"
    /\ committed
    /\ devTables # {}
    /\ cleanup # <<>>
    /\ issued # <<>>
====
